---- MODULE Spec2Model ----
(***************************************************************************)
(* Goal-gap matching engine of the Netellus recommendation tool            *)
(* (src/App.tsx, the `recommendations` memo and the values it reads).      *)
(*                                                                         *)
(* Numbers: a JavaScript number is modelled as an exact rational           *)
(* [n |-> numerator, d |-> denominator] in lowest terms with d > 0; NaN is *)
(* the extra value [n |-> 0, d |-> 0].  IEEE-754 rounding is abstracted.   *)
(* Strings are TLA+ strings read character by character.                   *)
(* Object identity of a database row is its field `id` (two rows with the  *)
(* same cell contents are still two different objects).                    *)
(*                                                                         *)
(* A value that is computed once and read several times (a JavaScript      *)
(* const or let) is bound by a set construction,                           *)
(*     CHOOSE result \in { body : x \in {value} } : TRUE,                   *)
(* so that it is evaluated once, as in the program.                        *)
(***************************************************************************)
EXTENDS Integers, Sequences, FiniteSets, TLC

(* ------------------------------ numbers -------------------------------- *)

NaN == [n |-> 0, d |-> 0]

Abs(x) == IF x < 0 THEN 0 - x ELSE x

RECURSIVE GCD(_, _)
GCD(a, b) ==
    IF b = 0 THEN a
    ELSE CHOOSE result \in { GCD(b, m) : m \in {a % b} } : TRUE

\* the rational p/q (q > 0) in lowest terms
Rat(p, q) ==
    CHOOSE result \in { [n |-> p \div g, d |-> q \div g] :
                        g \in {GCD(Abs(p), q)} } : TRUE

Num(k) == [n |-> k, d |-> 1]

Zero == Num(0)

IsNaN(x) == x.d = 0

Add(x, y) == Rat(x.n * y.d + y.n * x.d, x.d * y.d)

Sub(x, y) == Rat(x.n * y.d - y.n * x.d, x.d * y.d)

Mul(x, y) == Rat(x.n * y.n, x.d * y.d)

\* x / k for a positive integer k
DivInt(x, k) == Rat(x.n, x.d * k)

Less(x, y) == x.n * y.d < y.n * x.d

Geq(x, y) == x.n * y.d >= y.n * x.d

Sign(x) == IF x.n > 0 THEN 1 ELSE IF x.n < 0 THEN 0 - 1 ELSE 0

\* the JavaScript expression  x || 0  for a number x: NaN and 0 are falsy
OrZero(x) == IF IsNaN(x) \/ x.n = 0 THEN Zero ELSE x

(* ------------------------------ strings -------------------------------- *)

Char(s, i) == IF i >= 1 /\ i <= Len(s) THEN SubSeq(s, i, i) ELSE ""

Digits == {"0", "1", "2", "3", "4", "5", "6", "7", "8", "9"}

DigitVal(c) ==
    CASE c = "0" -> 0 [] c = "1" -> 1 [] c = "2" -> 2 [] c = "3" -> 3
      [] c = "4" -> 4 [] c = "5" -> 5 [] c = "6" -> 6 [] c = "7" -> 7
      [] c = "8" -> 8 [] c = "9" -> 9

RECURSIVE Pow10(_)
Pow10(k) == IF k = 0 THEN 1 ELSE 10 * Pow10(k - 1)

\* index of the first character at or after i that is not white space
RECURSIVE SkipSpace(_, _)
SkipSpace(s, i) == IF Char(s, i) = " " THEN SkipSpace(s, i + 1) ELSE i

\* index just after the run of decimal digits that starts at i
RECURSIVE DigitRun(_, _)
DigitRun(s, i) == IF Char(s, i) \in Digits THEN DigitRun(s, i + 1) ELSE i

\* the value of the decimal digits s[i .. j-1]
RECURSIVE DigitsValue(_, _, _)
DigitsValue(s, i, j) ==
    IF i >= j THEN 0
    ELSE DigitsValue(s, i, j - 1) * 10 + DigitVal(Char(s, j - 1))

\* index of the last character at or before i that is not white space
RECURSIVE SkipSpaceBack(_, _)
SkipSpaceBack(s, i) == IF Char(s, i) = " " THEN SkipSpaceBack(s, i - 1) ELSE i

\* String.prototype.trim
Trim(s) == SubSeq(s, SkipSpace(s, 1), SkipSpaceBack(s, Len(s)))

\* s from index i on, without the first occurrence of the character c
RECURSIVE DropFirstFrom(_, _, _)
DropFirstFrom(s, c, i) ==
    IF i > Len(s) THEN ""
    ELSE IF Char(s, i) = c THEN SubSeq(s, i + 1, Len(s))
    ELSE Char(s, i) \o DropFirstFrom(s, c, i + 1)

\* s.replace(c, ''): removes the first occurrence of the character c
ReplaceFirst(s, c) == DropFirstFrom(s, c, 1)

\* s from index i on, without any occurrence of the character c
RECURSIVE DropAllFrom(_, _, _)
DropAllFrom(s, c, i) ==
    IF i > Len(s) THEN ""
    ELSE IF Char(s, i) = c THEN DropAllFrom(s, c, i + 1)
    ELSE Char(s, i) \o DropAllFrom(s, c, i + 1)

\* s.replace(/c/g, ''): removes every occurrence of the character c
ReplaceAll(s, c) == DropAllFrom(s, c, 1)

\* the scan of the global parseFloat: skips leading white space, reads the
\* longest prefix  [+-] digits [. digits]  and ignores the rest; NaN when
\* that prefix has no digit.  (Exponents and "Infinity" need the letters e,
\* E and I, which no cell or input of the model contains.)
\* the value of the prefix: the sign stands at i, the integer digits at
\* j..k-1, and the fraction digits, if a dot stands at k, at k+1..m-1
scanValue(s, i, j, k, m) ==
    LET fracLen == IF m > k THEN m - (k + 1) ELSE 0
        mag     == DigitsValue(s, j, k) * Pow10(fracLen)
                        + (IF m > k THEN DigitsValue(s, k + 1, m) ELSE 0)
    IN  IF (k - j) + fracLen = 0 THEN NaN
        ELSE Rat(IF Char(s, i) = "-" THEN 0 - mag ELSE mag, Pow10(fracLen))

\* the fraction: a dot at k and the digits behind it
scanFraction(s, i, j, k) ==
    scanValue(s, i, j, k, IF Char(s, k) = "." THEN DigitRun(s, k + 1) ELSE k)

\* the integer digits from j on
scanDigits(s, i, j) == scanFraction(s, i, j, DigitRun(s, j))

\* the optional sign at i
scanSign(s, i) ==
    scanDigits(s, i, IF Char(s, i) \in {"+", "-"} THEN i + 1 ELSE i)

parseFloatScan(s) == scanSign(s, SkipSpace(s, 1))

(* ------------------------------- inputs -------------------------------- *)

\* number of rows of Catalogue the database is drawn from
NumRows == 9

\* Rows the record source can deliver (src/types.ts, DatabaseRow).  Fields:
\*   industry               案例公司產業別
\*   measureType            措施類型
\*   systemShare            a_系統佔比(同產業)
\*   carbonReductionMedian  c_碳減量中位數      (tonnes)
\*   energyPotentialMedian  c_節能潛力中位數    (MWh)
\* Every cell is a string, as parsed from the CSV; a missing cell is "".
Row(i, ind, mt, sh, c, e) ==
    [id |-> i, industry |-> ind, measureType |-> mt, systemShare |-> sh,
     carbonReductionMedian |-> c, energyPotentialMedian |-> e]

Catalogue ==
    << Row(1, "A", "m1", "40%",  "50",    "0.05"),
       Row(2, "A", "m2", "60%",  "120",   "0.12"),
       Row(3, "A", "m3", "10%",  "30",    "0.03"),
       Row(4, "A", "m2", "",     "120",   "0"),
       Row(5, "A", "0",  "90%",  "900",   "0.9"),
       Row(6, "A", "m1", "abc%", "50",    "0.2"),
       Row(7, "B", "m4", "95%",  "800",   "0.8"),
       Row(8, "A", "m4", "40%",  "1,200", ""),
       Row(9, "A", "",   "80%",  "700",   "0.7"),
       Row(10, "A", "m5", "60%", "0",     "0.15"),
       Row(11, "A", "m3", "",    "abc",   "0.03") >>

\* the texts of the two metric cells of the catalogue rows
CellTexts ==
    { "50", "120", "30", "900", "800", "1,200", "700", "0", "abc",
      "0.05", "0.12", "0.03", "0.9", "0.2", "0.8", "", "0.7", "0.15" }

\* parseFloatScan of every metric cell, scanned once
ParsedCells == [s \in CellTexts |-> parseFloatScan(s)]

\* the global parseFloat: the scan of s (looked up for a metric cell, which
\* the engine parses at every comparison)
parseFloat(s) ==
    IF s \in CellTexts THEN ParsedCells[s] ELSE parseFloatScan(s)

\* the catalogue rows with an index in S, in catalogue order
RowsAscending(S) ==
    [p \in 1..Cardinality(S) |->
        Catalogue[CHOOSE x \in S : Cardinality({y \in S : y <= x}) = p]]

\* the catalogue rows with an index in S, in reverse catalogue order
RowsDescending(S) ==
    [p \in 1..Cardinality(S) |->
        Catalogue[CHOOSE x \in S : Cardinality({y \in S : y >= x}) = p]]

\* the databases the fetch can resolve with: every selection of rows of the
\* first NumRows catalogue rows, in catalogue order or in reverse order
Databases ==
    LET N == IF NumRows <= Len(Catalogue) THEN NumRows ELSE Len(Catalogue)
    IN  UNION { { RowsAscending(S), RowsDescending(S) } : S \in SUBSET (1..N) }

\* what the industry text input can hold: an industry name, the same name
\* with a trailing blank, a name of no row, the empty input
IndustryInputs == {"A", "A ", "C", ""}

GoalPaths == {"carbon", "energy"}

\* <<targetMethod, currentVal, targetVal>> as the goal form can hold them:
\* currentVal, and targetVal in absolute mode, went through
\* handleFormattedChange (digits with thousands separators, or empty);
\* targetVal in percentage mode is the raw value of a number input.
GoalForms ==
    { <<"percentage", "1,000", "10">>,
      <<"percentage", "1,000", "12">>,
      <<"percentage", "1,000", "25">>,
      <<"percentage", "1,000", "50">>,
      <<"percentage", "1,000", "-5">>,
      <<"percentage", "200",   "12.5">>,
      <<"percentage", "",      "10">>,
      <<"absolute",   "1,000", "160">>,
      <<"absolute",   "",      "1,000">>,
      <<"absolute",   "",      "">> }

\* userGoal === null
null == [isNull |-> TRUE]

(* ------------------------------- engine -------------------------------- *)

\* parseMetric: the parse of the metrics that are put on display
parseMetric(val) ==
    IF val = "" THEN Zero
    ELSE CHOOSE result \in
            { IF IsNaN(num) THEN Zero ELSE num :
              num \in { parseFloat(Trim(ReplaceAll(val, ","))) } } : TRUE

\* getMetrics, for the two metrics the rows of the model carry
getMetrics(row) ==
    [carbonReduction    |-> parseMetric(row.carbonReductionMedian),
     energyPotentialKWh |-> Mul(parseMetric(row.energyPotentialMedian),
                                Num(1000))]

\* Array.prototype.slice(0, k)
Take(s, k) ==
    CHOOSE result \in { SubSeq(a, 1, IF Len(a) < k THEN Len(a) ELSE k) :
                        a \in {s} } : TRUE

\* Array.prototype.some / includes on the elements of a sequence
Range(s) == { s[i] : i \in 1..Len(s) }

\* getValue without the scaling of the energy potential to kWh
getValue_EnergyUnscaled(r, path) ==
    IF path = "carbon"
    THEN OrZero(parseFloat(r.carbonReductionMedian))
    ELSE OrZero(parseFloat(r.energyPotentialMedian))

getValue(r, path) ==
    IF path = "carbon"
    THEN OrZero(parseFloat(r.carbonReductionMedian))
    ELSE Mul(OrZero(parseFloat(r.energyPotentialMedian)), Num(1000))

getSystemShare(r) ==
    LET replaced == ReplaceFirst(r.systemShare, "%")
        valStr   == IF replaced = "" THEN "0" ELSE replaced
    IN  OrZero(parseFloat(valStr))

\* compareNoGoal without the tie-break on the impact
compareNoGoal_ShareOnly(a, b, path) ==
    Sign(Sub(getSystemShare(b), getSystemShare(a)))

\* compareNoGoal with the operands of both differences swapped (ascending)
compareNoGoal_Ascending(a, b, path) ==
    LET shareA == getSystemShare(a)
        shareB == getSystemShare(b)
    IN  IF shareB # shareA THEN Sign(Sub(shareA, shareB))
        ELSE Sign(Sub(getValue(a, path), getValue(b, path)))

\* comparator of the no-goal sort: share descending, then impact descending
compareNoGoal(a, b, path) ==
    LET shareA == getSystemShare(a)
        shareB == getSystemShare(b)
    IN  IF shareB # shareA THEN Sign(Sub(shareB, shareA))
        ELSE Sign(Sub(getValue(b, path), getValue(a, path)))

\* compareImpact with the system share as a secondary key
compareImpact_ThenShare(a, b, path) ==
    IF getValue(b, path) # getValue(a, path)
    THEN Sign(Sub(getValue(b, path), getValue(a, path)))
    ELSE Sign(Sub(getSystemShare(b), getSystemShare(a)))

\* compareImpact with the operands swapped (ascending order)
compareImpact_Ascending(a, b, path) ==
    Sign(Sub(getValue(a, path), getValue(b, path)))

\* comparator of the goal sort: impact descending
compareImpact(a, b, path) == Sign(Sub(getValue(b, path), getValue(a, path)))

compare(a, b, path, byShare) ==
    IF byShare THEN compareNoGoal(a, b, path) ELSE compareImpact(a, b, path)

\* x put into the sorted sequence s behind every element that does not
\* have to come after it
RECURSIVE InsertSorted(_, _, _, _)
InsertSorted(s, x, path, byShare) ==
    CHOOSE result \in
        { IF Len(a) = 0 THEN << x >>
          ELSE IF compare(a[Len(a)], x, path, byShare) <= 0 THEN Append(a, x)
          ELSE Append(InsertSorted(SubSeq(a, 1, Len(a) - 1), x, path, byShare),
                      a[Len(a)]) :
          a \in {s} } : TRUE

\* Array.prototype.sort with a comparator: a stable sort
RECURSIVE Sort(_, _, _)
Sort(s, path, byShare) ==
    CHOOSE result \in
        { IF Len(a) = 0 THEN a
          ELSE InsertSorted(Sort(SubSeq(a, 1, Len(a) - 1), path, byShare),
                            a[Len(a)], path, byShare) :
          a \in {s} } : TRUE

\* the distinct non-empty industry names of the database
industries(rows) == { r.industry : r \in Range(rows) } \ {""}

isValidIndustry(rows, search) ==
    LET input == Trim(search)
    IN  \E ind \in industries(rows) : ind = input

industryStats(rows, search) ==
    IF ~ isValidIndustry(rows, search) THEN << >>
    ELSE LET sameIndustry(r) == r.industry = search
         IN  SelectSeq(rows, sameIndustry)

\* path and targetGap as computed from userGoal
goalPathOf(goal) == IF goal # null THEN goal.path ELSE "carbon"

\* targetGapOf with the percentage taken as a factor (no division by 100)
targetGapOf_NoPercent(goal) ==
    IF goal # null
    THEN IF goal.targetType = "percentage"
         THEN Mul(goal.currentValue, goal.targetValue)
         ELSE goal.targetValue
    ELSE Zero

targetGapOf(goal) ==
    IF goal # null
    THEN IF goal.targetType = "percentage"
         THEN Mul(goal.currentValue, DivInt(goal.targetValue, 100))
         ELSE goal.targetValue
    ELSE Zero

\* isValidAction without the test for the placeholder type "0"
isValidAction_NoPlaceholderTest(r, path) ==
    /\ r.measureType # ""
    /\ Less(Zero, getValue(r, path))

\* isValidAction without the test for a positive impact
isValidAction_NoImpactTest(r, path) ==
    /\ r.measureType # ""
    /\ r.measureType # "0"

\* r.措施類型 && r.措施類型 !== '0' && getValue(r, path) > 0
isValidAction(r, path) ==
    /\ r.measureType # ""
    /\ r.measureType # "0"
    /\ Less(Zero, getValue(r, path))

validActionsOf(stats, path) ==
    LET keep(r) == isValidAction(r, path)
    IN  SelectSeq(stats, keep)

\* distinctPass without the test on the measure type
RECURSIVE distinctPass_AnyType(_, _, _, _)
distinctPass_AnyType(candidates, acc, targetGap, path) ==
    CHOOSE result \in
        { IF Len(cs) = 0 \/ Geq(a.sum, targetGap) THEN a
          ELSE distinctPass_AnyType(Tail(cs),
                                    [combo |-> Append(a.combo, cs[1]),
                                     sum   |-> Add(a.sum, getValue(cs[1], path))],
                                    targetGap, path) :
          cs \in {candidates}, a \in {acc} } : TRUE

\* distinctPass without the break at currentSum >= targetGap
RECURSIVE distinctPass_NoBreak(_, _, _, _)
distinctPass_NoBreak(candidates, acc, targetGap, path) ==
    CHOOSE result \in
        { IF Len(cs) = 0 THEN a
          ELSE IF ~ \E c \in Range(a.combo) : c.measureType = cs[1].measureType
               THEN distinctPass_NoBreak(Tail(cs),
                                 [combo |-> Append(a.combo, cs[1]),
                                  sum   |-> Add(a.sum, getValue(cs[1], path))],
                                 targetGap, path)
               ELSE distinctPass_NoBreak(Tail(cs), a, targetGap, path) :
          cs \in {candidates}, a \in {acc} } : TRUE

\* first loop of the combo branch: candidates of a measure type not yet in
\* the combo, until the sum reaches the gap
RECURSIVE distinctPass(_, _, _, _)
distinctPass(candidates, acc, targetGap, path) ==
    CHOOSE result \in
        { IF Len(cs) = 0 \/ Geq(a.sum, targetGap) THEN a
          ELSE IF ~ \E c \in Range(a.combo) : c.measureType = cs[1].measureType
               THEN distinctPass(Tail(cs),
                                 [combo |-> Append(a.combo, cs[1]),
                                  sum   |-> Add(a.sum, getValue(cs[1], path))],
                                 targetGap, path)
               ELSE distinctPass(Tail(cs), a, targetGap, path) :
          cs \in {candidates}, a \in {acc} } : TRUE

\* fallbackPass without the test that the candidate is not yet in the combo
RECURSIVE fallbackPass_NoIncludesTest(_, _, _, _)
fallbackPass_NoIncludesTest(candidates, acc, targetGap, path) ==
    CHOOSE result \in
        { IF Len(cs) = 0 \/ Geq(a.sum, targetGap) THEN a
          ELSE fallbackPass_NoIncludesTest(Tail(cs),
                                 [combo |-> Append(a.combo, cs[1]),
                                  sum   |-> Add(a.sum, getValue(cs[1], path))],
                                 targetGap, path) :
          cs \in {candidates}, a \in {acc} } : TRUE

\* second loop of the combo branch: any candidate not yet in the combo
RECURSIVE fallbackPass(_, _, _, _)
fallbackPass(candidates, acc, targetGap, path) ==
    CHOOSE result \in
        { IF Len(cs) = 0 \/ Geq(a.sum, targetGap) THEN a
          ELSE IF cs[1] \notin Range(a.combo)
               THEN fallbackPass(Tail(cs),
                                 [combo |-> Append(a.combo, cs[1]),
                                  sum   |-> Add(a.sum, getValue(cs[1], path))],
                                 targetGap, path)
               ELSE fallbackPass(Tail(cs), a, targetGap, path) :
          cs \in {candidates}, a \in {acc} } : TRUE

noGoalResult(validActions, path) ==
    [type      |-> "no_goal",
     items     |-> Take(Sort(validActions, path, TRUE), 5),
     targetGap |-> Zero]

\* singleResult whose alternatives are the two records behind the primary,
\* whatever their measure type
singleResult_AnyType(sorted, targetGap) ==
    LET primaryAction == sorted[1]
        alternatives  == Take(Tail(sorted), 2)
    IN  [type      |-> "single",
         items     |-> << primaryAction >> \o alternatives,
         targetGap |-> targetGap]

singleResult(sorted, targetGap) ==
    LET primaryAction == sorted[1]
        otherType(r)  == r.measureType # sorted[1].measureType
        alternatives  == Take(SelectSeq(sorted, otherType), 2)
    IN  [type      |-> "single",
         items     |-> << primaryAction >> \o alternatives,
         targetGap |-> targetGap]

\* comboResult without the fallback loop
comboResult_NoFallback(sorted, targetGap, path) ==
    LET primaryAction == sorted[1]
        notPrimary(r) == r # primaryAction
        candidates    == SelectSeq(sorted, notPrimary)
        start         == [combo |-> << primaryAction >>,
                          sum   |-> getValue(primaryAction, path)]
    IN  CHOOSE result \in
            { [type        |-> "combo",
               items       |-> first.combo,
               targetGap   |-> targetGap,
               totalImpact |-> first.sum] :
              first \in {distinctPass(candidates, start, targetGap, path)} } : TRUE

\* comboResult with a sum that starts at 0 instead of the primary's impact
comboResult_SumFromZero(sorted, targetGap, path) ==
    LET primaryAction == sorted[1]
        notPrimary(r) == r # primaryAction
        candidates    == SelectSeq(sorted, notPrimary)
        start         == [combo |-> << primaryAction >>, sum |-> Zero]
        afterFallback(first) ==
            IF Less(first.sum, targetGap)
            THEN fallbackPass(candidates, first, targetGap, path)
            ELSE first
    IN  CHOOSE result \in
            { [type        |-> "combo",
               items       |-> second.combo,
               targetGap   |-> targetGap,
               totalImpact |-> second.sum] :
              second \in { afterFallback(first) :
                  first \in {distinctPass(candidates, start, targetGap, path)} }
            } : TRUE

comboResult(sorted, targetGap, path) ==
    LET primaryAction == sorted[1]
        notPrimary(r) == r # primaryAction
        candidates    == SelectSeq(sorted, notPrimary)
        start         == [combo |-> << primaryAction >>,
                          sum   |-> getValue(primaryAction, path)]
        afterFallback(first) ==
            IF Less(first.sum, targetGap)
            THEN fallbackPass(candidates, first, targetGap, path)
            ELSE first
    IN  CHOOSE result \in
            { [type        |-> "combo",
               items       |-> second.combo,
               targetGap   |-> targetGap,
               totalImpact |-> second.sum] :
              second \in { afterFallback(first) :
                  first \in {distinctPass(candidates, start, targetGap, path)} }
            } : TRUE

\* goalResult that answers an empty list with a gap of 0
goalResult_ZeroGapWhenEmpty(validActions, targetGap, path) ==
    CHOOSE result \in
        { IF Len(sorted) = 0
          THEN [type |-> "none", items |-> << >>, targetGap |-> Zero]
          ELSE IF Geq(getValue(sorted[1], path), targetGap)
               THEN singleResult(sorted, targetGap)
               ELSE comboResult(sorted, targetGap, path) :
          sorted \in {Sort(validActions, path, FALSE)} } : TRUE

\* goalResult that asks for primaryImpact > targetGap
goalResult_StrictlyGreater(validActions, targetGap, path) ==
    CHOOSE result \in
        { IF Len(sorted) = 0
          THEN [type |-> "none", items |-> << >>, targetGap |-> targetGap]
          ELSE IF Less(targetGap, getValue(sorted[1], path))
               THEN singleResult(sorted, targetGap)
               ELSE comboResult(sorted, targetGap, path) :
          sorted \in {Sort(validActions, path, FALSE)} } : TRUE

goalResult(validActions, targetGap, path) ==
    CHOOSE result \in
        { IF Len(sorted) = 0
          THEN [type |-> "none", items |-> << >>, targetGap |-> targetGap]
          ELSE IF Geq(getValue(sorted[1], path), targetGap)
               THEN singleResult(sorted, targetGap)
               ELSE comboResult(sorted, targetGap, path) :
          sorted \in {Sort(validActions, path, FALSE)} } : TRUE

\* recommend without the early return for an industry without rows
recommend_NoEarlyReturn(stats, goal) ==
    CHOOSE result \in
        { IF goal = null
          THEN noGoalResult(validActionsOf(stats, path), path)
          ELSE goalResult(validActionsOf(stats, path), targetGap, path) :
          path \in {goalPathOf(goal)}, targetGap \in {targetGapOf(goal)} } : TRUE

\* the `recommendations` memo: a function of industryStats and userGoal
recommend(stats, goal) ==
    IF Len(stats) = 0
    THEN [type |-> "none", items |-> << >>, targetGap |-> Zero]
    ELSE CHOOSE result \in
            { IF goal = null
              THEN noGoalResult(validActionsOf(stats, path), path)
              ELSE goalResult(validActionsOf(stats, path), targetGap, path) :
              path \in {goalPathOf(goal)}, targetGap \in {targetGapOf(goal)} } : TRUE

\* evaluationMemory with the sort applied to industryStats itself (no copy
\* by filter in between)
evaluationMemory_SortsIndustryStats(stats, goal) ==
    IF Len(stats) = 0
    THEN [industryStats |-> stats, userGoal |-> goal]
    ELSE CHOOSE result \in
            { [industryStats |-> Sort(stats, path, noGoal),
               userGoal      |-> g] :
              g \in {goal}, path \in {goalPathOf(goal)},
              noGoal \in {goal = null} } : TRUE

\* the two inputs of the `recommendations` memo as one evaluation leaves
\* them.  userGoal is only read.  industryStats is only the receiver of
\* filter, which returns a new array (validActions) and leaves its receiver
\* alone; the sort that follows works in place on validActions, and push
\* works on the new array combo.
evaluationMemory(stats, goal) ==
    IF Len(stats) = 0
    THEN [industryStats |-> stats, userGoal |-> goal]
    ELSE CHOOSE result \in
            { [industryStats |-> stats,
               validActions  |-> Sort(validActionsOf(stats, path), path, noGoal),
               userGoal      |-> g] :
              g \in {goal}, path \in {goalPathOf(goal)},
              noGoal \in {goal = null} } : TRUE

\* the object handleConfirmGoal passes to setUserGoal
confirmedGoal(goalPath, targetMethod, currentVal, targetVal) ==
    [path         |-> goalPath,
     currentValue |-> OrZero(parseFloat(ReplaceAll(currentVal, ","))),
     targetType   |-> targetMethod,
     targetValue  |-> OrZero(parseFloat(ReplaceAll(targetVal, ",")))]

(* ----------------------------- state machine --------------------------- *)
(* The App component as far as it feeds the engine: the database load, the *)
(* profile form, the goal question, the goal form and the reset.  In Spec  *)
(* the two setTimeout delays (handleNoGoal, handleConfirmGoal) are taken   *)
(* together with the click that starts them; SpecTimers further down takes *)
(* click and callback apart.  The suggestion list and the detail dialog do *)
(* not reach the engine and are left out.                                  *)

\* industryStatsArray is the array the industryStats memo holds, and
\* recommendations the value the recommendations memo holds.  timers are the
\* setTimeout callbacks that have not run yet, in the order they were set.
\* goalInputSeen is a history variable: the goal form was on display since
\* the last profile submission and no reset came after.
\* load is the position of the load effect: what fetchDatabase is waiting
\* for, how its request ended, and the promise it returned.
\* indexApp is the state of the component of src/index.tsx, the one-file
\* build of the tool with its own App: a record of its useState values and
\* of the value of its recommendations memo.
VARIABLES db, isDbLoading, industrySearch, phone, taxId, isProfileComplete,
          goalMode, userGoal, industryStatsArray, recommendations,
          isScanning, timers, goalInputSeen, load, indexApp

vars == << db, isDbLoading, industrySearch, phone, taxId, isProfileComplete,
           goalMode, userGoal, industryStatsArray, recommendations,
           isScanning, timers, goalInputSeen, load, indexApp >>

\* what the phone and tax id inputs can hold (digits only)
PhoneInputs == {"", "0912345678"}

TaxIdInputs == {"", "12345678"}

isPhoneValid(p) == SubSeq(p, 1, IF Len(p) < 2 THEN Len(p) ELSE 2) = "09" /\ Len(p) = 10

\* render with a recommendations memo that depends on industryStats only
render_GoalNotADependency(prevStats, prevRecs, statsDeps, goalDep, rows, search, goal) ==
    CHOOSE result \in
        { IF statsDeps
          THEN CHOOSE evaluated \in
                  { [recommendations |-> recommend(stats, g),
                     industryStats   |-> memory.industryStats,
                     userGoal        |-> memory.userGoal] :
                    memory \in {evaluationMemory(stats, g)} } : TRUE
          ELSE [recommendations |-> prevRecs,
                industryStats   |-> stats,
                userGoal        |-> g] :
          stats \in { IF statsDeps THEN industryStats(rows, search)
                      ELSE prevStats },
          g \in {goal} } : TRUE

\* the two memos on the render that follows a state change.  prevStats and
\* prevRecs are the values the memos hold; statsDeps tells that a dependency
\* of the industryStats memo changed (db, industrySearch; isValidIndustry
\* follows from them), goalDep that userGoal was set to another object.
\* industryStats is recomputed under statsDeps; recommendations is
\* recomputed when industryStats is a new array or under goalDep, and runs
\* on the array the industryStats memo holds.  The result is what the
\* component holds after the render.
render(prevStats, prevRecs, statsDeps, goalDep, rows, search, goal) ==
    CHOOSE result \in
        { IF statsDeps \/ goalDep
          THEN CHOOSE evaluated \in
                  { [recommendations |-> recommend(stats, g),
                     industryStats   |-> memory.industryStats,
                     userGoal        |-> memory.userGoal] :
                    memory \in {evaluationMemory(stats, g)} } : TRUE
          ELSE [recommendations |-> prevRecs,
                industryStats   |-> stats,
                userGoal        |-> g] :
          stats \in { IF statsDeps THEN industryStats(rows, search)
                      ELSE prevStats },
          g \in {goal} } : TRUE

(* ----------------------- src/index.tsx: the memo ----------------------- *)

\* Math.abs of a number
AbsNum(x) == [n |-> Abs(x.n), d |-> x.d]

\* parseNum of the recommendations memo: commas removed, then parseFloat || 0
parseNum(s) == OrZero(parseFloat(ReplaceAll(s, ",")))

\* the value of a row on the path of the goal: carbon reduction, or energy
\* potential * 1000
indexPathValue(r, path) ==
    IF path = "carbon" THEN parseNum(r.carbonReductionMedian)
    ELSE Mul(parseNum(r.energyPotentialMedian), Num(1000))

\* industryActions.reduce((prev, curr) => ...) from element i on: curr takes
\* the place of prev only if it is strictly closer to targetX
RECURSIVE bestMatchFrom(_, _, _, _, _)
bestMatchFrom(actions, i, prev, path, targetX) ==
    IF i > Len(actions) THEN prev
    ELSE CHOOSE result \in
            { bestMatchFrom(actions, i + 1, next, path, targetX) :
              next \in
                { IF Less(AbsNum(Sub(indexPathValue(actions[i], path), targetX)),
                          AbsNum(Sub(indexPathValue(prev, path), targetX)))
                  THEN actions[i] ELSE prev } } : TRUE

\* the recommendations memo of src/index.tsx, a function of its dependencies
indexRecommendations(rows, selectedIndustry, goal, currentVal) ==
    IF selectedIndustry = "" \/ goal = null \/ Len(rows) = 0 THEN null
    ELSE CHOOSE result \in
            { IF Len(industryActions) = 0 THEN null
              ELSE [bestMatch |-> bestMatchFrom(industryActions, 2,
                                                industryActions[1],
                                                goal.path, targetX),
                    targetX   |-> targetX] :
              targetX \in
                { IF goal.targetType = "percentage"
                  THEN Mul(OrZero(parseFloat(currentVal)),
                           DivInt(goal.targetValue, 100))
                  ELSE goal.targetValue },
              industryActions \in
                { SelectSeq(rows, LAMBDA r : r.industry = selectedIndustry) }
            } : TRUE

\* the component of src/index.tsx after a render: the memo holds the value
\* for the dependencies of this render
indexRender(state) ==
    [state EXCEPT !.recommendations =
        indexRecommendations(state.db, state.selectedIndustry, state.userGoal,
                             state.currentVal)]

\* the component of src/index.tsx after construction
indexInitial ==
    indexRender([db |-> << >>, isDbLoading |-> TRUE, selectedIndustry |-> "",
                 isProfileComplete |-> FALSE, showGoalSetting |-> FALSE,
                 userGoal |-> null, goalPath |-> "carbon", currentVal |-> "",
                 targetVal |-> "", targetType |-> "percentage",
                 recommendations |-> null])

Init ==
    /\ db = << >>
    /\ isDbLoading = TRUE
    /\ industrySearch = ""
    /\ phone = ""
    /\ taxId = ""
    /\ isProfileComplete = FALSE
    /\ goalMode = "unset"
    /\ userGoal = null
    /\ \E first \in { render(<< >>, null, TRUE, TRUE, << >>, "", null) } :
            /\ industryStatsArray = first.industryStats
            /\ recommendations = first.recommendations
    /\ isScanning = FALSE
    /\ timers = << >>
    /\ goalInputSeen = FALSE
    /\ load = [pc |-> "fetch", outcome |-> "none", text |-> << >>,
               promise |-> "pending", value |-> << >>]
    /\ indexApp = indexInitial

\* fetchDatabase() resolves with the parsed rows
fetchResolved(data) ==
    /\ isDbLoading
    /\ db' = data
    /\ isDbLoading' = FALSE
    /\ \E next \in { render(industryStatsArray, recommendations, TRUE, FALSE,
                             data, industrySearch, userGoal) } :
            /\ industryStatsArray' = next.industryStats
            /\ recommendations' = next.recommendations
            /\ userGoal' = next.userGoal
    /\ load' = [load EXCEPT !.pc = "done", !.promise = "resolved"]
    /\ UNCHANGED << industrySearch, phone, taxId, isProfileComplete, goalMode >>
    /\ UNCHANGED << isScanning, timers, goalInputSeen >>
    /\ UNCHANGED indexApp

\* typing into the industry input of the profile form
setIndustrySearch(s) ==
    /\ ~ isDbLoading
    /\ ~ isProfileComplete
    /\ industrySearch' = s
    /\ \E next \in { render(industryStatsArray, recommendations,
                             s # industrySearch, FALSE, db, s, userGoal) } :
            /\ industryStatsArray' = next.industryStats
            /\ recommendations' = next.recommendations
            /\ userGoal' = next.userGoal
    /\ UNCHANGED << db, isDbLoading, phone, taxId, isProfileComplete, goalMode >>
    /\ UNCHANGED << load, isScanning, timers, goalInputSeen >>
    /\ UNCHANGED indexApp

setPhone(p) ==
    /\ ~ isDbLoading
    /\ ~ isProfileComplete
    /\ phone' = p
    /\ UNCHANGED << db, isDbLoading, industrySearch, taxId, isProfileComplete,
                    goalMode, userGoal, industryStatsArray, recommendations >>
    /\ UNCHANGED << load, isScanning, timers, goalInputSeen >>
    /\ UNCHANGED indexApp

setTaxId(t) ==
    /\ ~ isDbLoading
    /\ ~ isProfileComplete
    /\ taxId' = t
    /\ UNCHANGED << db, isDbLoading, industrySearch, phone, isProfileComplete,
                    goalMode, userGoal, industryStatsArray, recommendations >>
    /\ UNCHANGED << load, isScanning, timers, goalInputSeen >>
    /\ UNCHANGED indexApp

handleProfileSubmit ==
    /\ ~ isDbLoading
    /\ ~ isProfileComplete
    /\ isValidIndustry(db, industrySearch) /\ Len(taxId) = 8 /\ isPhoneValid(phone)
    /\ isProfileComplete' = TRUE
    /\ goalMode' = "unset"
    /\ UNCHANGED << db, isDbLoading, industrySearch, phone, taxId, userGoal,
                    industryStatsArray, recommendations >>
    /\ goalInputSeen' = FALSE
    /\ UNCHANGED << load, isScanning, timers >>
    /\ UNCHANGED indexApp

\* the button "I have a goal" of the goal question
chooseHasGoal ==
    /\ ~ isDbLoading
    /\ isProfileComplete
    /\ goalMode = "unset"
    /\ goalMode' = "has_goal_input"
    /\ UNCHANGED << db, isDbLoading, industrySearch, phone, taxId,
                    isProfileComplete, userGoal, industryStatsArray,
                    recommendations >>
    /\ goalInputSeen' = TRUE
    /\ UNCHANGED << load, isScanning, timers >>
    /\ UNCHANGED indexApp

handleNoGoal ==
    /\ ~ isDbLoading
    /\ isProfileComplete
    /\ goalMode = "unset"
    /\ goalMode' = "no_goal"
    /\ UNCHANGED << db, isDbLoading, industrySearch, phone, taxId,
                    isProfileComplete, userGoal, industryStatsArray,
                    recommendations >>
    /\ UNCHANGED << load, isScanning, timers, goalInputSeen >>
    /\ UNCHANGED indexApp

\* the confirm button of the goal form, with the form's current values
handleConfirmGoal(goalPath, targetMethod, currentVal, targetVal) ==
    /\ ~ isDbLoading
    /\ isProfileComplete
    /\ goalMode = "has_goal_input"
    /\ goalMode' = "has_goal"
    /\ \E next \in { render(industryStatsArray, recommendations, FALSE, TRUE,
                             db, industrySearch,
                             confirmedGoal(goalPath, targetMethod, currentVal,
                                           targetVal)) } :
            /\ industryStatsArray' = next.industryStats
            /\ recommendations' = next.recommendations
            /\ userGoal' = next.userGoal
    /\ UNCHANGED << db, isDbLoading, industrySearch, phone, taxId,
                    isProfileComplete >>
    /\ UNCHANGED << load, isScanning, timers, goalInputSeen >>
    /\ UNCHANGED indexApp

resetAll ==
    /\ ~ isDbLoading
    /\ isProfileComplete' = FALSE
    /\ goalMode' = "unset"
    /\ industrySearch' = ""
    /\ taxId' = ""
    /\ phone' = ""
    /\ \E next \in { render(industryStatsArray, recommendations,
                             industrySearch # "", userGoal # null,
                             db, "", null) } :
            /\ industryStatsArray' = next.industryStats
            /\ recommendations' = next.recommendations
            /\ userGoal' = next.userGoal
    /\ UNCHANGED << db, isDbLoading >>
    /\ goalInputSeen' = FALSE
    /\ UNCHANGED << load, isScanning, timers >>
    /\ UNCHANGED indexApp

Next ==
    \/ \E data \in Databases : fetchResolved(data)
    \/ \E s \in IndustryInputs : setIndustrySearch(s)
    \/ \E p \in PhoneInputs : setPhone(p)
    \/ \E t \in TaxIdInputs : setTaxId(t)
    \/ handleProfileSubmit
    \/ chooseHasGoal
    \/ handleNoGoal
    \/ \E p \in GoalPaths, f \in GoalForms : handleConfirmGoal(p, f[1], f[2], f[3])
    \/ resetAll

Spec == Init /\ [][Next]_vars

(* -------------------------- the timers spelled out --------------------- *)
(* The same component with the two setTimeout delays as they are: a click  *)
(* sets isScanning and a timer, and the callback runs later, whatever the  *)
(* user did in between (no handler clears a timer).                        *)

\* number of setTimeout callbacks that can be pending at a time
MaxTimers == 2

\* the databases and the goal forms of this specification
TimerDatabases == { << >>, << Catalogue[1], Catalogue[2], Catalogue[3] >> }

TimerGoalForms == { <<"percentage", "1,000", "10">>,
                    <<"absolute",   "1,000", "160">> }

\* the click on "I have no goal": setIsScanning(true) and setTimeout(.., 1000)
handleNoGoalClick ==
    /\ ~ isDbLoading
    /\ isProfileComplete
    /\ goalMode = "unset"
    /\ Len(timers) < MaxTimers
    /\ isScanning' = TRUE
    /\ timers' = Append(timers, [callback |-> "handleNoGoal"])
    /\ UNCHANGED << load, db, isDbLoading, industrySearch, phone, taxId,
                    isProfileComplete, goalMode, userGoal, industryStatsArray,
                    recommendations, goalInputSeen >>
    /\ UNCHANGED indexApp

\* the click on the confirm button of the goal form: setIsScanning(true) and
\* setTimeout(.., 1200); the callback closes over the form values of the
\* render the click happened in
handleConfirmGoalClick(goalPath, targetMethod, currentVal, targetVal) ==
    /\ ~ isDbLoading
    /\ isProfileComplete
    /\ goalMode = "has_goal_input"
    /\ Len(timers) < MaxTimers
    /\ isScanning' = TRUE
    /\ timers' = Append(timers,
                        [callback |-> "handleConfirmGoal",
                         goal     |-> confirmedGoal(goalPath, targetMethod,
                                                    currentVal, targetVal)])
    /\ UNCHANGED << load, db, isDbLoading, industrySearch, phone, taxId,
                    isProfileComplete, goalMode, userGoal, industryStatsArray,
                    recommendations, goalInputSeen >>
    /\ UNCHANGED indexApp

\* timers[i] can be the next callback to run: a timer that was set earlier
\* is due earlier, unless it is one of 1200 ms and timers[i] one of 1000 ms
isDue(i) ==
    \A j \in 1..(i - 1) :
        /\ timers[j].callback = "handleConfirmGoal"
        /\ timers[i].callback = "handleNoGoal"

\* the pending timers without timers[i]
withoutTimer(i) == SubSeq(timers, 1, i - 1) \o SubSeq(timers, i + 1, Len(timers))

\* the callback of handleNoGoal runs
noGoalTimeout(i) ==
    /\ i \in 1..Len(timers)
    /\ isDue(i)
    /\ timers[i].callback = "handleNoGoal"
    /\ goalMode' = "no_goal"
    /\ isScanning' = FALSE
    /\ timers' = withoutTimer(i)
    /\ UNCHANGED << load, db, isDbLoading, industrySearch, phone, taxId,
                    isProfileComplete, userGoal, industryStatsArray,
                    recommendations, goalInputSeen >>
    /\ UNCHANGED indexApp

\* the callback of handleConfirmGoal runs
confirmGoalTimeout(i) ==
    /\ i \in 1..Len(timers)
    /\ isDue(i)
    /\ timers[i].callback = "handleConfirmGoal"
    /\ goalMode' = "has_goal"
    /\ isScanning' = FALSE
    /\ timers' = withoutTimer(i)
    /\ \E next \in { render(industryStatsArray, recommendations, FALSE, TRUE,
                             db, industrySearch, timers[i].goal) } :
            /\ industryStatsArray' = next.industryStats
            /\ recommendations' = next.recommendations
            /\ userGoal' = next.userGoal
    /\ UNCHANGED << load, db, isDbLoading, industrySearch, phone, taxId,
                    isProfileComplete, goalInputSeen >>
    /\ UNCHANGED indexApp

NextTimers ==
    \/ \E data \in TimerDatabases : fetchResolved(data)
    \/ \E s \in IndustryInputs : setIndustrySearch(s)
    \/ \E p \in PhoneInputs : setPhone(p)
    \/ \E t \in TaxIdInputs : setTaxId(t)
    \/ handleProfileSubmit
    \/ chooseHasGoal
    \/ handleNoGoalClick
    \/ \E i \in 1..MaxTimers : noGoalTimeout(i)
    \/ \E f \in TimerGoalForms : handleConfirmGoalClick("carbon", f[1], f[2], f[3])
    \/ \E i \in 1..MaxTimers : confirmGoalTimeout(i)
    \/ resetAll

SpecTimers == Init /\ [][NextTimers]_vars

(* --------------------------- the load spelled out ---------------------- *)
(* The load effect of the component and fetchDatabase step by step: the    *)
(* request, the reading of the body, the parse, and the handler of the     *)
(* promise.  load.pc is what comes next: "fetch" (await fetch), "text"     *)
(* (await response.text()), "parse" (the rest of fetchDatabase), "settled" *)
(* (the handler of the promise), "done".                                   *)
(* Spec and SpecTimers take all of this as the one step                    *)
(* fetchResolved.  A response text is the sequence of its lines, as        *)
(* text.split(/\r?\n/) gives them.                                         *)

\* number of lines a response text can have
MaxLines == 5

\* the header line of the sheet, with the field names of Row
CsvHeader ==
    "industry,measureType,systemShare,carbonReductionMedian,energyPotentialMedian"

\* the lines a body can hold behind the header: a blank line, a full row, a
\* row with a quoted cell that holds a comma and without its last cell, a
\* short row with a quoted and padded first cell
CsvLines ==
    { "", "A,m1,40%,50,0.05", "A,m4,40%,\"1,200\",", "\" B \",m2,,120" }

\* the response texts: the empty body (one empty line), and the header
\* followed by up to MaxLines - 1 lines
ResponseTexts ==
    { << "" >> } \cup
    { << CsvHeader >> \o t :
        t \in UNION { [1..k -> CsvLines] : k \in 0..(MaxLines - 1) } }

\* parseLine: the loop over the characters ends a cell at every comma it
\* meets with inQuotes false, that is with an even number of quotes before
\* it; it copies no quote, and trims every cell
parseLine(line) ==
    CHOOSE result \in
        { [p \in 1..(Cardinality(commas) + 1) |->
            LET before == { j \in commas : Cardinality({m \in commas : m <= j}) < p }
                upTo   == { j \in commas : Cardinality({m \in commas : m <= j}) <= p }
                first  == IF before = {} THEN 1
                          ELSE (CHOOSE j \in before : \A m \in before : m <= j) + 1
                last   == IF upTo = before THEN Len(line)
                          ELSE (CHOOSE j \in upTo : \A m \in upTo : m <= j) - 1
            IN  CHOOSE cell \in
                    { Trim(unquoted) :
                        unquoted \in { ReplaceAll(raw, "\"") :
                                        raw \in {SubSeq(line, first, last)} } } : TRUE] :
          commas \in
            { { j \in 1..Len(line) :
                    /\ Char(line, j) = ","
                    /\ Cardinality({k \in 1..(j - 1) : Char(line, k) = "\""}) % 2 = 0 } }
        } : TRUE

\* obj[header] = values[i] || "" for every header: the cell under the header
\* h, or "" when no header is h or the line has no such cell (a field that
\* is not set reads as undefined, which every use treats as it treats "");
\* the object is the i-th of the array
rowOfLine(headers, values, i) ==
    CHOOSE obj \in
        { LET cell(h) ==
                IF \E k \in 1..Len(hs) : hs[k] = h /\ k <= Len(vs)
                THEN vs[CHOOSE k \in 1..Len(hs) :
                            /\ hs[k] = h /\ k <= Len(vs)
                            /\ \A m \in (k + 1)..Len(hs) :
                                    ~ (hs[m] = h /\ m <= Len(vs))]
                ELSE ""
          IN  Row(i, cell("industry"), cell("measureType"), cell("systemShare"),
                  cell("carbonReductionMedian"), cell("energyPotentialMedian")) :
          hs \in {headers}, vs \in {values} } : TRUE

\* the rows fetchDatabase returns for a text of two lines or more
parseRows(lines) ==
    CHOOSE rows \in
        { [i \in 1..Len(kept) |-> rowOfLine(headers, parseLine(kept[i]), i)] :
          headers \in {parseLine(lines[1])},
          kept \in {SelectSeq(Tail(lines), LAMBDA line : Trim(line) # "")} } : TRUE

\* the catch block of fetchDatabase with an error thrown again
fetchDatabaseCatch_Rethrows(outcome) ==
    [pc |-> "settled", outcome |-> outcome, text |-> << >>,
     promise |-> "rejected", value |-> << >>]

\* the catch block of fetchDatabase: return []
fetchDatabaseCatch(outcome) ==
    [pc |-> "settled", outcome |-> outcome, text |-> << >>,
     promise |-> "resolved", value |-> << >>]

\* await fetch(SHEET_URL) ends: the request fails, or a response arrives
\* that is not OK (throw), or one that is OK
fetchSettles(outcome) ==
    /\ load.pc = "fetch"
    /\ load' = IF outcome = "ok" THEN [load EXCEPT !.pc = "text"]
               ELSE fetchDatabaseCatch(outcome)
    /\ UNCHANGED << db, isDbLoading, industrySearch, phone, taxId,
                    isProfileComplete, goalMode, userGoal, industryStatsArray,
                    recommendations, isScanning, timers, goalInputSeen >>
    /\ UNCHANGED indexApp

\* await response.text() fails
responseTextRejects ==
    /\ load.pc = "text"
    /\ load' = fetchDatabaseCatch("text_failure")
    /\ UNCHANGED << db, isDbLoading, industrySearch, phone, taxId,
                    isProfileComplete, goalMode, userGoal, industryStatsArray,
                    recommendations, isScanning, timers, goalInputSeen >>
    /\ UNCHANGED indexApp

\* await response.text() gives the body
responseTextArrives(lines) ==
    /\ load.pc = "text"
    /\ load' = [load EXCEPT !.pc = "parse", !.text = lines]
    /\ UNCHANGED << db, isDbLoading, industrySearch, phone, taxId,
                    isProfileComplete, goalMode, userGoal, industryStatsArray,
                    recommendations, isScanning, timers, goalInputSeen >>
    /\ UNCHANGED indexApp

\* fetchDatabase goes on with the text: fewer than 2 lines return [],
\* anything else returns the parsed rows
fetchDatabaseReturns ==
    /\ load.pc = "parse"
    /\ load' = IF Len(load.text) < 2
               THEN [pc |-> "settled", outcome |-> "short_text",
                     text |-> << >>, promise |-> "resolved", value |-> << >>]
               ELSE [pc |-> "settled", outcome |-> "csv",
                     text |-> << >>, promise |-> "resolved",
                     value |-> parseRows(load.text)]
    /\ UNCHANGED << db, isDbLoading, industrySearch, phone, taxId,
                    isProfileComplete, goalMode, userGoal, industryStatsArray,
                    recommendations, isScanning, timers, goalInputSeen >>
    /\ UNCHANGED indexApp

\* the handlers of the load effect: then(data => ...) for a resolved
\* promise, catch(err => ...) for a rejected one
loadEffectHandler ==
    /\ load.pc = "settled"
    /\ IF load.promise = "resolved"
       THEN fetchResolved(load.value)
       ELSE /\ isDbLoading' = FALSE
            /\ load' = [load EXCEPT !.pc = "done"]
            /\ UNCHANGED << db, industrySearch, phone, taxId,
                            isProfileComplete, goalMode, userGoal,
                            industryStatsArray, recommendations, isScanning,
                            timers, goalInputSeen, indexApp >>

NextLoad ==
    \/ \E outcome \in {"network_failure", "not_ok", "ok"} : fetchSettles(outcome)
    \/ responseTextRejects
    \/ \E lines \in ResponseTexts : responseTextArrives(lines)
    \/ fetchDatabaseReturns
    \/ loadEffectHandler

\* every request ends one way or another, and a settled promise runs its
\* handler
SpecLoad == Init /\ [][NextLoad]_vars /\ WF_vars(NextLoad)

(* ------------------------ src/index.tsx: the App ----------------------- *)
(* The component of the one-file build.  Its state is the record indexApp; *)
(* the variables of src/App.tsx are left alone.  As in Spec, the           *)
(* setTimeout delay of the confirm handler is taken together with the      *)
(* click, and the tax id and the phone of the profile form come in with    *)
(* the submit.                                                             *)

\* the variables of the component of src/App.tsx
appVars == << db, isDbLoading, industrySearch, phone, taxId,
              isProfileComplete, goalMode, userGoal, industryStatsArray,
              recommendations, isScanning, timers, goalInputSeen, load >>

\* the databases and the form values of this specification
IndexDatabases ==
    { << >>,
      << Catalogue[1], Catalogue[2], Catalogue[3] >>,
      << Catalogue[4], Catalogue[2], Catalogue[8], Catalogue[7] >> }

IndexCurrentVals == {"", "1000", "2000"}

IndexTargetVals == {"10", "85"}

\* fetchDatabase().then: setDb(data), setIsDbLoading(false)
indexFetchResolved(data) ==
    /\ indexApp.isDbLoading
    /\ indexApp' = indexRender([indexApp EXCEPT !.db = data,
                                                !.isDbLoading = FALSE])
    /\ UNCHANGED appVars

\* typing into the industry input, or the click on a suggestion
setSelectedIndustry(v) ==
    /\ ~ indexApp.isDbLoading
    /\ ~ indexApp.isProfileComplete
    /\ indexApp' = indexRender(
            [indexApp EXCEPT !.selectedIndustry =
                IF \E r \in Range(indexApp.db) : r.industry = v THEN v ELSE ""])
    /\ UNCHANGED appVars

\* handleProfileSubmit of src/index.tsx, with the tax id and the phone of
\* the form
indexHandleProfileSubmit(formTaxId, formPhone) ==
    /\ ~ indexApp.isDbLoading
    /\ ~ indexApp.isProfileComplete
    /\ indexApp' =
            IF /\ \E r \in Range(indexApp.db) :
                        r.industry = indexApp.selectedIndustry
               /\ Len(formTaxId) = 8
               /\ Len(formPhone) >= 10
            THEN indexRender([indexApp EXCEPT !.isProfileComplete = TRUE,
                                              !.showGoalSetting = TRUE])
            ELSE indexApp
    /\ UNCHANGED appVars

\* the buttons that go back to the profile form: setIsProfileComplete(false)
editProfile ==
    /\ ~ indexApp.isDbLoading
    /\ indexApp.isProfileComplete
    /\ indexApp' = indexRender([indexApp EXCEPT !.isProfileComplete = FALSE])
    /\ UNCHANGED appVars

\* the click on the logo; the goal form keeps its values
resetApp ==
    /\ ~ indexApp.isDbLoading
    /\ indexApp' = indexRender([indexApp EXCEPT !.isProfileComplete = FALSE,
                                                !.showGoalSetting = FALSE,
                                                !.selectedIndustry = "",
                                                !.userGoal = null])
    /\ UNCHANGED appVars

\* the goal form is on display
goalSettingShown ==
    /\ ~ indexApp.isDbLoading
    /\ indexApp.isProfileComplete
    /\ indexApp.showGoalSetting

setGoalPath(path) ==
    /\ goalSettingShown
    /\ indexApp' = indexRender([indexApp EXCEPT !.goalPath = path])
    /\ UNCHANGED appVars

\* handleNumericInput(e, setCurrentVal) with a value of digits
setCurrentVal(v) ==
    /\ goalSettingShown
    /\ indexApp' = indexRender([indexApp EXCEPT !.currentVal = v])
    /\ UNCHANGED appVars

\* handleNumericInput(e, setTargetVal) with a value of digits
setTargetVal(v) ==
    /\ goalSettingShown
    /\ indexApp' = indexRender([indexApp EXCEPT !.targetVal = v])
    /\ UNCHANGED appVars

setTargetType(type) ==
    /\ goalSettingShown
    /\ indexApp' = indexRender([indexApp EXCEPT !.targetType = type])
    /\ UNCHANGED appVars

\* the button "no goal yet": setUserGoal(null), setShowGoalSetting(false)
skipGoal ==
    /\ goalSettingShown
    /\ indexApp' = indexRender([indexApp EXCEPT !.userGoal = null,
                                                !.showGoalSetting = FALSE])
    /\ UNCHANGED appVars

\* the confirm button of the goal form and its callback
handleConfirmGoalFixed ==
    /\ goalSettingShown
    /\ indexApp' = indexRender(
            [indexApp EXCEPT
                !.userGoal =
                    [path         |-> indexApp.goalPath,
                     currentValue |-> OrZero(parseFloat(indexApp.currentVal)),
                     targetType   |-> indexApp.targetType,
                     targetValue  |-> OrZero(parseFloat(indexApp.targetVal))],
                !.showGoalSetting = FALSE])
    /\ UNCHANGED appVars

\* the button of the results view that shows the goal form again
openGoalSetting ==
    /\ ~ indexApp.isDbLoading
    /\ indexApp.isProfileComplete
    /\ ~ indexApp.showGoalSetting
    /\ indexApp' = indexRender([indexApp EXCEPT !.showGoalSetting = TRUE])
    /\ UNCHANGED appVars

NextIndex ==
    \/ \E data \in IndexDatabases : indexFetchResolved(data)
    \/ \E v \in IndustryInputs : setSelectedIndustry(v)
    \/ \E t \in TaxIdInputs, p \in PhoneInputs : indexHandleProfileSubmit(t, p)
    \/ editProfile
    \/ resetApp
    \/ \E path \in GoalPaths : setGoalPath(path)
    \/ \E v \in IndexCurrentVals : setCurrentVal(v)
    \/ \E v \in IndexTargetVals : setTargetVal(v)
    \/ \E type \in {"percentage", "absolute"} : setTargetType(type)
    \/ skipGoal
    \/ handleConfirmGoalFixed
    \/ openGoalSetting

SpecIndex == Init /\ [][NextIndex]_vars

(* ------------------------------ properties ----------------------------- *)

\* the path that drives matching: carbon without a goal, goal.path otherwise
ActivePath == IF userGoal = null THEN "carbon" ELSE userGoal.path

\* the impact value of a row on the active path
Impact(r) == getValue(r, ActivePath)

\* the rows of the database that belong to the requested industry
IndustryRows == { r \in Range(db) : r.industry = industrySearch }

\* the filtered set of Step 1
FilteredSet ==
    { r \in IndustryRows :
        r.measureType \notin {"", "0"} /\ Less(Zero, Impact(r)) }

\* x is the gap Step 2 computes from the confirmed goal
IsStep2Gap(x) ==
    IF userGoal = null THEN x = Zero
    ELSE IF userGoal.targetType = "percentage"
         THEN Mul(x, Num(100)) = Mul(userGoal.currentValue, userGoal.targetValue)
         ELSE x = userGoal.targetValue

IsNumber(x) == x.d > 0 /\ x = Rat(x.n, x.d)

\* C1: for every input the engine returns a result object (a kind, a
\* sequence of database rows, a numeric targetGap); when no record of the
\* requested industry exists the result is none, no items, targetGap 0.
C1_AlwaysAResult ==
    /\ recommendations.type \in {"none", "no_goal", "single", "combo"}
    /\ \A i \in 1..Len(recommendations.items) :
            recommendations.items[i] \in Range(db)
    /\ IsNumber(recommendations.targetGap)
    /\ IndustryRows = {} =>
            /\ recommendations.type = "none"
            /\ recommendations.items = << >>
            /\ recommendations.targetGap = Zero

\* a goal is confirmed for an industry that no row of a non-empty database has
C1_Witness ==
    /\ db # << >>
    /\ industrySearch = "A "
    /\ userGoal # null
    /\ Less(Zero, targetGapOf(userGoal))
    /\ recommendations.type = "none"

\* C2: every returned item belongs to the requested industry, has a measure
\* type other than "" and "0", and a positive impact on the active path.
C2_ItemsPassFilter ==
    \A i \in 1..Len(recommendations.items) :
        LET item == recommendations.items[i]
        IN  /\ item.industry = industrySearch
            /\ item.measureType # ""
            /\ item.measureType # "0"
            /\ Less(Zero, Impact(item))

\* items are returned although the industry has a placeholder row ("0"),
\* a row without measure type and a row without impact on the active path
C2_Witness ==
    /\ recommendations.items # << >>
    /\ \E r \in IndustryRows : r.measureType = "0" /\ Less(Zero, Impact(r))
    /\ \E r \in IndustryRows : r.measureType = "" /\ Less(Zero, Impact(r))
    /\ \E r \in IndustryRows : r.measureType \notin {"", "0"} /\ Impact(r) = Zero
    /\ \E r \in Range(db) : r.industry # industrySearch

\* C3: whenever the filtered set is empty the result is none with no items.
C3_EmptyFilteredIsNone ==
    FilteredSet = {} =>
        /\ recommendations.type = "none"
        /\ recommendations.items = << >>

C5_TargetGap ==
    FilteredSet # {} => IsStep2Gap(recommendations.targetGap)

\* a percentage goal of 12.5 % of 200 over usable rows: the gap is 25
C5_Witness ==
    /\ FilteredSet # {}
    /\ userGoal # null
    /\ userGoal.targetType = "percentage"
    /\ userGoal.currentValue = Num(200)
    /\ userGoal.targetValue = Rat(25, 2)
    /\ recommendations.targetGap = Num(25)

\* C6: targetGap >= 0 in every result.
C6_GapNonNegative == Geq(recommendations.targetGap, Zero)

\* a ranks strictly above b in the no-goal order: larger share, or equal
\* share and larger impact
RanksAbove(a, b) ==
    \/ Less(getSystemShare(b), getSystemShare(a))
    \/ /\ getSystemShare(a) = getSystemShare(b)
       /\ Less(Impact(b), Impact(a))

Min(a, b) == IF a < b THEN a ELSE b

\* the sum of the impacts of items[1 .. k]
RECURSIVE SumImpactUpTo(_, _)
SumImpactUpTo(items, k) ==
    IF k = 0 THEN Zero
    ELSE Add(SumImpactUpTo(items, k - 1), Impact(items[k]))

SumImpact(items) == SumImpactUpTo(items, Len(items))

\* C7: without a goal and with n >= 1 filtered records the result is
\* no_goal with targetGap 0, and items are min(5, n) different filtered
\* records in share-descending order, ties by carbon impact descending,
\* such that no omitted filtered record ranks strictly above an included one.
C7_NoGoalTopFive ==
    (userGoal = null /\ FilteredSet # {}) =>
        LET items == recommendations.items
        IN  /\ recommendations.type = "no_goal"
            /\ recommendations.targetGap = Zero
            /\ Len(items) = Min(5, Cardinality(FilteredSet))
            /\ \A i \in 1..Len(items) : items[i] \in FilteredSet
            /\ \A i, j \in 1..Len(items) : i < j =>
                    /\ items[i] # items[j]
                    /\ ~ RanksAbove(items[j], items[i])
            /\ \A r \in FilteredSet \ Range(items) :
                    \A i \in 1..Len(items) : ~ RanksAbove(r, items[i])

\* six usable rows without a goal: five are listed, one is left out, and
\* two listed rows tie on the share
C7_Witness ==
    /\ userGoal = null
    /\ Cardinality(FilteredSet) = 6
    /\ Len(recommendations.items) = 5
    /\ \E i \in 1..4 :
            /\ getSystemShare(recommendations.items[i])
                    = getSystemShare(recommendations.items[i + 1])
            /\ Less(Impact(recommendations.items[i + 1]),
                    Impact(recommendations.items[i]))

\* C8: in a single result the first item's impact is >= targetGap and is
\* the maximum impact of the filtered set.
C8_SingleSufficient ==
    recommendations.type = "single" =>
        LET primary == recommendations.items[1]
        IN  /\ Geq(Impact(primary), recommendations.targetGap)
            /\ \A r \in FilteredSet : Geq(Impact(primary), Impact(r))

\* a single result for a positive gap where a smaller record also covers it
C8_Witness ==
    /\ recommendations.type = "single"
    /\ Less(Zero, recommendations.targetGap)
    /\ \E r \in FilteredSet :
            /\ Less(Impact(r), Impact(recommendations.items[1]))
            /\ Geq(Impact(r), recommendations.targetGap)

\* the goal {carbon, baseline 1000, percentage, 10} over the three records
\* with carbon reductions 50, 120, 30
C9_Scenario ==
    /\ Range(db) = { Catalogue[1], Catalogue[2], Catalogue[3] }
    /\ industrySearch = "A"
    /\ userGoal = [path |-> "carbon", currentValue |-> Num(1000),
                   targetType |-> "percentage", targetValue |-> Num(10)]

\* C9: with a goal and a non-empty filtered set the result is single iff
\* the maximum filtered impact is >= targetGap and combo otherwise; every
\* targetGap <= 0 gives single; the scenario gives gap 100 and single with
\* the 120 record first.
C9_SingleIffPrimaryCovers ==
    /\ (userGoal # null /\ FilteredSet # {}) =>
            LET gap     == recommendations.targetGap
                covered == \E r \in FilteredSet : Geq(Impact(r), gap)
            IN  /\ recommendations.type = IF covered THEN "single" ELSE "combo"
                /\ Geq(Zero, gap) => recommendations.type = "single"
    /\ C9_Scenario =>
            /\ recommendations.targetGap = Num(100)
            /\ recommendations.type = "single"
            /\ recommendations.items[1].carbonReductionMedian = "120"

\* the scenario is reached and answered with a single result
C9_Witness == C9_Scenario /\ recommendations.type = "single"

\* C10: in a combo result totalImpact is the sum of the items' impacts, and
\* either totalImpact >= targetGap or items holds every filtered record.
C10_ComboProgress ==
    recommendations.type = "combo" =>
        /\ recommendations.totalImpact = SumImpact(recommendations.items)
        /\ \/ Geq(recommendations.totalImpact, recommendations.targetGap)
           \/ FilteredSet \subseteq Range(recommendations.items)

\* a combo that reaches the gap only with a second record of a measure type
\* it already holds, and leaves a further record out
C10_Witness ==
    /\ recommendations.type = "combo"
    /\ Geq(recommendations.totalImpact, recommendations.targetGap)
    /\ \E i, j \in 1..Len(recommendations.items) :
            /\ i < j
            /\ recommendations.items[i].measureType
                    = recommendations.items[j].measureType
    /\ ~ (FilteredSet \subseteq Range(recommendations.items))

\* the combo and the sum as the first loop of the combo branch leaves them,
\* for the inputs of the current state
FirstPass ==
    CHOOSE result \in
        { distinctPass(SelectSeq(sorted, LAMBDA r : r # sorted[1]),
                       [combo |-> << sorted[1] >>,
                        sum   |-> getValue(sorted[1], ActivePath)],
                       targetGapOf(userGoal), ActivePath) :
          sorted \in { Sort(validActionsOf(industryStats(db, industrySearch),
                                           ActivePath), ActivePath, FALSE) } } : TRUE

SharesType(items) ==
    \E i, j \in 1..Len(items) :
        i < j /\ items[i].measureType = items[j].measureType

\* C11: in a combo result the items the first pass leaves (the primary and
\* what the pass appended) are the head of the result and have pairwise
\* distinct measure types; two items of the result share a measure type only
\* if the first pass ended with sum < targetGap.
C11_DistinctTypePass ==
    recommendations.type = "combo" =>
        LET first == FirstPass
            items == recommendations.items
        IN  /\ Len(first.combo) <= Len(items)
            /\ SubSeq(items, 1, Len(first.combo)) = first.combo
            /\ ~ SharesType(first.combo)
            /\ SharesType(items) => Less(first.sum, recommendations.targetGap)

\* a combo where the first pass passed over a record of a type it already
\* held, took three types, stayed below the gap, and the fallback added the
\* record it had passed over
C11_Witness ==
    /\ recommendations.type = "combo"
    /\ Len(FirstPass.combo) = 3
    /\ Len(recommendations.items) > 3
    /\ SharesType(recommendations.items)
    /\ Less(Impact(recommendations.items[3]), Impact(recommendations.items[4]))

\* the goals the goal form can confirm
ConfirmableGoals ==
    { confirmedGoal(p, f[1], f[2], f[3]) : p \in GoalPaths, f \in GoalForms }

\* C13: no evaluation changes its inputs: the array of the industry's rows
\* still has the length, the order and the field values the filter of db
\* gave it, db is still a database as fetched, and the goal is still null or
\* the object the goal form confirmed.
C13_InputsNotMutated ==
    /\ industryStatsArray = industryStats(db, industrySearch)
    /\ db \in Databases \cup {<< >>}
    /\ userGoal \in ConfirmableGoals \cup {null}

\* an evaluation with a goal whose sort put a later row of the industry in
\* front of the first one
C13_Witness ==
    /\ userGoal # null
    /\ Len(industryStatsArray) >= 3
    /\ Len(recommendations.items) >= 2
    /\ recommendations.items[1] # industryStatsArray[1]
    /\ recommendations.items[2] = industryStatsArray[1]

\* C18: whatever changes of db, of the industry input and of the confirmed
\* goal came before, the recommendation that is rendered is the engine
\* applied from scratch to the current db, industry input and goal.
C18_RecomputedFromScratch ==
    recommendations = recommend(industryStats(db, industrySearch), userGoal)

\* a goal was confirmed after the database and the industry had been set,
\* and the result on display is one that only this goal gives
C18_Witness ==
    /\ industrySearch = "A"
    /\ userGoal # null
    /\ recommendations.type = "combo"
    /\ recommendations # recommend(industryStats(db, industrySearch), null)

\* the metric of a row that is put on display for the active path
Displayed(r) ==
    IF ActivePath = "energy" THEN getMetrics(r).energyPotentialKWh
    ELSE getMetrics(r).carbonReduction

\* a row whose impact cells both hold the text s
CellRow(s) == Row(0, "A", "m1", "40%", s, s)

\* C14: every numeric parse of a record field is total and maps "" to 0,
\* "abc" to 0, "1,234" to 1234 and "12.5%" to 12.5, the parse of the ranking
\* impact (getValue) as well as the parse of the displayed metrics
\* (parseMetric); the ranking impact of every listed record equals its
\* displayed metric, so that a cell with thousands separators ranks as the
\* number parseMetric reads from it.
C14_ParsesAgree ==
    /\ parseMetric("") = Zero
    /\ parseMetric("abc") = Zero
    /\ parseMetric("1,234") = Num(1234)
    /\ parseMetric("12.5%") = Rat(25, 2)
    /\ getValue(CellRow(""), "carbon") = Zero
    /\ getValue(CellRow("abc"), "carbon") = Zero
    /\ getValue(CellRow("12.5%"), "carbon") = Rat(25, 2)
    /\ \A i \in 1..Len(recommendations.items) :
            Impact(recommendations.items[i]) = Displayed(recommendations.items[i])

\* the number JavaScript reads from the text of a cell (0 when it reads none)
CellNumber(s) == OrZero(parseFloat(s))

\* the impact of a row as the claim states it: the energy potential in MWh
\* times 1000 on the energy path, the carbon reduction as it is on the
\* carbon path
ScaledImpact(r) ==
    IF ActivePath = "energy"
    THEN Mul(CellNumber(r.energyPotentialMedian), Num(1000))
    ELSE CellNumber(r.carbonReductionMedian)

RECURSIVE SumScaledUpTo(_, _)
SumScaledUpTo(items, k) ==
    IF k = 0 THEN Zero
    ELSE Add(SumScaledUpTo(items, k - 1), ScaledImpact(items[k]))

\* the rows of the industry with a measure type and a positive scaled impact
ScaledCandidates ==
    { r \in IndustryRows :
        r.measureType \notin {"", "0"} /\ Less(Zero, ScaledImpact(r)) }

\* C15: the value the engine filters on, sorts by, compares with targetGap
\* and sums into totalImpact is energyPotentialMedian * 1000 on the energy
\* path and carbonReductionMedian unscaled on the carbon path.
C15_EnergyScaledToKWh ==
    LET items      == recommendations.items
        gap        == recommendations.targetGap
        candidates == ScaledCandidates
    IN  /\ \A i \in 1..Len(items) : items[i] \in candidates
        /\ (userGoal # null /\ IndustryRows # {}) =>
                /\ recommendations.type = "none" <=> candidates = {}
                /\ recommendations.type \in {"single", "combo"} =>
                    /\ \A r \in candidates :
                            Geq(ScaledImpact(items[1]), ScaledImpact(r))
                    /\ \A i \in 2..Len(items) :
                            recommendations.type = "single" =>
                                Geq(ScaledImpact(items[i - 1]), ScaledImpact(items[i]))
                    /\ recommendations.type = "single"
                            <=> Geq(ScaledImpact(items[1]), gap)
                /\ recommendations.type = "combo" =>
                    recommendations.totalImpact = SumScaledUpTo(items, Len(items))

\* an energy goal of 100 kWh met by a single record of 0.12 MWh, and a combo
\* would have been needed had the 0.12 been compared with the gap
C15_Witness ==
    /\ userGoal # null
    /\ userGoal.path = "energy"
    /\ recommendations.type = "single"
    /\ recommendations.targetGap = Num(100)
    /\ recommendations.items[1].energyPotentialMedian = "0.12"
    /\ Len(recommendations.items) = 3

\* the share cell of the row is missing or holds no number
ShareUnreadable(r) == IsNaN(parseFloat(ReplaceFirst(r.systemShare, "%")))

\* the share cell of the row holds a positive number
SharePositive(r) ==
    ~ ShareUnreadable(r) /\ Less(Zero, CellNumber(r.systemShare))

\* C16: in the no-goal ranking a record whose share cell is unparseable or
\* missing counts with share 0, and where it is listed every filtered record
\* with a positive share is listed before it.
C16_UnreadableShareLast ==
    (userGoal = null /\ recommendations.type = "no_goal") =>
        LET items    == recommendations.items
            filtered == FilteredSet
        IN  \A r \in filtered :
                ShareUnreadable(r) =>
                    /\ getSystemShare(r) = Zero
                    /\ \A i \in 1..Len(items) :
                            items[i] = r =>
                                \A q \in filtered :
                                    SharePositive(q) =>
                                        \E j \in 1..(i - 1) : items[j] = q

\* four records with a positive share are listed first, the record without
\* a share cell comes fifth although its impact is larger than that of the
\* three records before it, and the record with the share "abc%" is left out
C16_Witness ==
    /\ userGoal = null
    /\ Len(recommendations.items) = 5
    /\ \A i \in 1..4 : SharePositive(recommendations.items[i])
    /\ recommendations.items[5].systemShare = ""
    /\ \A i \in 2..4 : Less(Impact(recommendations.items[i]),
                            Impact(recommendations.items[5]))
    /\ \E r \in FilteredSet \ Range(recommendations.items) :
            r.systemShare = "abc%"

\* the three records with carbon reductions 50, 120, 30 and three measure
\* types, and the goal {carbon, baseline 1000, percentage, 50}
C17_Scenario ==
    /\ Range(db) = { Catalogue[1], Catalogue[2], Catalogue[3] }
    /\ industrySearch = "A"
    /\ userGoal = [path |-> "carbon", currentValue |-> Num(1000),
                   targetType |-> "percentage", targetValue |-> Num(50)]

\* C17 as stated: in the scenario targetGap = 500, the result is a combo,
\* the greedy pass adds after the primary (120) the record with impact 30
\* and then the record with impact 50, and totalImpact = 200.
C17_Original ==
    C17_Scenario =>
        /\ recommendations.targetGap = Num(500)
        /\ recommendations.type = "combo"
        /\ FirstPass.combo = << Catalogue[2], Catalogue[3], Catalogue[1] >>
        /\ Range(recommendations.items) = Range(db)
        /\ recommendations.totalImpact = Num(200)

\* C17 amended: in the scenario targetGap = 500, the result is a combo, the
\* greedy pass adds after the primary (120) the record with impact 50 and
\* then the record with impact 30, the final items are these three records
\* in this order, and totalImpact = 200.
C17_ScenarioCombo ==
    C17_Scenario =>
        /\ recommendations.targetGap = Num(500)
        /\ recommendations.type = "combo"
        /\ FirstPass.combo = << Catalogue[2], Catalogue[1], Catalogue[3] >>
        /\ recommendations.items = << Catalogue[2], Catalogue[1], Catalogue[3] >>
        /\ recommendations.totalImpact = Num(200)

\* the scenario is reached with the database in reverse order and answered
\* with a combo
C17_Witness ==
    /\ C17_Scenario
    /\ db[1] = Catalogue[3]
    /\ recommendations.type = "combo"

\* the filtered records of another measure type than the row p
OtherTypes(p) == { r \in FilteredSet : r.measureType # p.measureType }

\* C20: a single result is the primary followed by at most 2 alternatives;
\* the alternatives are the first two records of another measure type than
\* the primary's in descending-impact order (fewer if fewer exist).
C20_SingleAlternatives ==
    recommendations.type = "single" =>
        LET items   == recommendations.items
            primary == recommendations.items[1]
            others  == OtherTypes(recommendations.items[1])
        IN  /\ Len(items) = 1 + Min(2, Cardinality(others))
            /\ \A i \in 2..Len(items) : items[i] \in others
            /\ Len(items) = 3 =>
                    /\ items[2] # items[3]
                    /\ Geq(Impact(items[2]), Impact(items[3]))
            /\ \A r \in others \ Range(items) :
                    \A i \in 2..Len(items) : Geq(Impact(items[i]), Impact(r))

\* a single result with two alternatives of one and the same measure type,
\* picked behind a record of the primary's type that has a larger impact,
\* and with a further record of another type left out
C20_Witness ==
    /\ recommendations.type = "single"
    /\ Len(recommendations.items) = 3
    /\ recommendations.items[2].measureType = recommendations.items[3].measureType
    /\ \E r \in FilteredSet \ Range(recommendations.items) :
            /\ r.measureType = recommendations.items[1].measureType
            /\ Less(Impact(recommendations.items[2]), Impact(r))
    /\ OtherTypes(recommendations.items[1]) \ Range(recommendations.items) # {}

\* the phase on display
Phase ==
    IF isDbLoading THEN "loading"
    ELSE IF ~ isProfileComplete THEN "profile"
    ELSE IF goalMode = "unset" THEN "goal_choice"
    ELSE IF goalMode = "has_goal_input" THEN "goal_input"
    ELSE "results"

\* the place of a phase in the flow
PhaseRank(ph) ==
    CASE ph = "loading" -> 0 [] ph = "profile" -> 1 [] ph = "goal_choice" -> 2
      [] ph = "goal_input" -> 3 [] ph = "results" -> 4

\* between two resets the phase on display only advances
C19_PhaseAdvances ==
    [][ \/ PhaseRank(Phase') >= PhaseRank(Phase)
        \/ (isProfileComplete /\ ~ isProfileComplete') ]_vars

\* results computed with a goal are on display only if the goal form was on
\* display since the last profile submission
C19_GoalResultsAfterGoalInput ==
    (Phase = "results" /\ userGoal # null) => goalInputSeen

\* C19: the goal-setting flow is linear: between two resets the phase on
\* display only advances along profile, goal choice, goal input, results,
\* for every interleaving of clicks and timer callbacks, and results
\* computed with a goal are shown only after the goal-input phase was passed
\* since the last profile submission.
C19_LinearFlow == C19_PhaseAdvances /\ [] C19_GoalResultsAfterGoalInput

\* C21: in a combo result the items the first pass leaves are in
\* non-increasing impact order, and when the result has more than one item
\* the sum of all items but the last is below the gap (nothing is appended
\* once the gap is covered).
C21_FirstPassOrderAndStop ==
    recommendations.type = "combo" =>
        LET first == FirstPass.combo
            items == recommendations.items
        IN  /\ \A i \in 1..(Len(first) - 1) :
                    Geq(Impact(first[i]), Impact(first[i + 1]))
            /\ Len(items) > 1 =>
                    Less(SumImpactUpTo(items, Len(items) - 1),
                         recommendations.targetGap)

\* the first pass covered the gap with its second item and stopped in front
\* of a record of a third measure type
C21_Witness ==
    /\ recommendations.type = "combo"
    /\ Len(recommendations.items) = 2
    /\ Geq(recommendations.totalImpact, recommendations.targetGap)
    /\ \E r \in FilteredSet :
            \A i \in 1..2 : r.measureType # recommendations.items[i].measureType

\* C22: in a combo result, items beyond those of the first pass exist only
\* if the first pass ended with sum < targetGap; they are records the first
\* pass did not take, in the order of the sort (non-increasing impact, and
\* every filtered record left out ranks no higher than the last one taken);
\* no record occurs twice in items; and if totalImpact < targetGap the items
\* are a permutation of the whole filtered set.
C22_FallbackPass ==
    recommendations.type = "combo" =>
        LET first == FirstPass
            items == recommendations.items
            k     == Len(first.combo)
            n     == Len(items)
        IN  /\ n > k => Less(first.sum, recommendations.targetGap)
            /\ \A i \in (k + 1)..n : items[i] \notin Range(first.combo)
            /\ \A i \in (k + 1)..(n - 1) :
                    Geq(Impact(items[i]), Impact(items[i + 1]))
            /\ n > k => \A r \in FilteredSet \ Range(items) :
                            Geq(Impact(items[n]), Impact(r))
            /\ \A i, j \in 1..n : items[i] = items[j] => i = j
            /\ Less(recommendations.totalImpact, recommendations.targetGap) =>
                    /\ Range(items) = FilteredSet
                    /\ n = Cardinality(FilteredSet)

\* the fallback pass appended two records the first pass had passed over and
\* ran out of candidates below the gap
C22_Witness ==
    /\ recommendations.type = "combo"
    /\ Len(recommendations.items) >= Len(FirstPass.combo) + 2
    /\ Less(recommendations.totalImpact, recommendations.targetGap)
    /\ Range(recommendations.items) = FilteredSet

\* a comes before b in the input (the order of the rows in db)
InputBefore(a, b) ==
    \E i, j \in 1..Len(db) : i < j /\ db[i] = a /\ db[j] = b

\* a and b tie on the impact of the active path
Ties(a, b) == Impact(a) = Impact(b)

\* C23: with a goal, records of equal impact keep their input order: the
\* primary is the earliest record in db among those of the highest impact;
\* equal-impact alternatives of a single result, equal-impact items of the
\* first pass and equal-impact items of the fallback pass stand in input
\* order; and a record that was left out although it ties with the last
\* alternative (of another type than the primary) or with the last fallback
\* item comes later in the input.
C23_StableTies ==
    (userGoal # null /\ recommendations.type \in {"single", "combo"}) =>
        LET items == recommendations.items
            n     == Len(items)
            k     == IF recommendations.type = "combo"
                     THEN Len(FirstPass.combo) ELSE n
        IN  /\ \A r \in FilteredSet \ {items[1]} :
                    \/ Less(Impact(r), Impact(items[1]))
                    \/ Ties(r, items[1]) /\ InputBefore(items[1], r)
            /\ \A i, j \in 2..k :
                    (i < j /\ Ties(items[i], items[j]))
                        => InputBefore(items[i], items[j])
            /\ \A i, j \in (k + 1)..n :
                    (i < j /\ Ties(items[i], items[j]))
                        => InputBefore(items[i], items[j])
            /\ (n > 1 /\ (recommendations.type = "single" \/ n > k)) =>
                    \A r \in FilteredSet \ Range(items) :
                        (Ties(r, items[n])
                            /\ (recommendations.type = "single"
                                    => r.measureType # items[1].measureType))
                        => InputBefore(items[n], r)

\* a single result whose primary ties with a record that stands later in db
\* and whose two alternatives tie with each other, in a database that holds
\* its rows in the opposite order of the catalogue
C23_Witness ==
    /\ recommendations.type = "single"
    /\ Len(recommendations.items) = 3
    /\ Ties(recommendations.items[2], recommendations.items[3])
    /\ recommendations.items[2].id > recommendations.items[3].id
    /\ \E r \in FilteredSet :
            /\ Ties(r, recommendations.items[1])
            /\ r.id < recommendations.items[1].id

\* C24: whenever the results view is on display with goalMode = "no_goal",
\* userGoal is null and the list on display is the no-goal list, for every
\* interleaving of the handlers and the pending timer callbacks.
C24_NoGoalViewHasNoGoal ==
    (Phase = "results" /\ goalMode = "no_goal") =>
        /\ userGoal = null
        /\ recommendations.type \in {"no_goal", "none"}

\* resetAll has run and the user has done nothing since: the form is as
\* resetAll leaves it, and a timer of the abandoned session is still pending
\* (timers are set only while the profile is complete, and only resetAll
\* takes the profile back)
AfterResetAll ==
    /\ ~ isProfileComplete
    /\ userGoal = null
    /\ goalMode = "unset"
    /\ industrySearch = "" /\ phone = "" /\ taxId = ""
    /\ timers # << >>

\* C25: after resetAll and until the next user action no timer callback of
\* an earlier handleConfirmGoal or handleNoGoal changes userGoal (null),
\* goalMode ("unset") or isProfileComplete (false).
C25_ResetAllStable ==
    [][ (AfterResetAll /\ timers' # timers) =>
            /\ userGoal' = null
            /\ goalMode' = "unset"
            /\ ~ isProfileComplete' ]_vars

\* totalImpact / targetGap as the results view computes it for a combo; a
\* division by zero gives no finite number (Infinity or NaN), which is
\* modelled as NaN
coverageRatio(recs) ==
    LET gap   == recs.targetGap
        total == recs.totalImpact
    IN  IF gap.n = 0 THEN NaN
        ELSE IF gap.n > 0 THEN Rat(total.n * gap.d, total.d * gap.n)
        ELSE Rat((0 - total.n) * gap.d, total.d * (0 - gap.n))

\* C26: whenever the result is a combo, targetGap > 0 and totalImpact > 0,
\* so the coverage ratio totalImpact / targetGap of the results view is a
\* number and is strictly positive.
C26_ComboCoverageDefined ==
    recommendations.type = "combo" =>
        /\ Less(Zero, recommendations.targetGap)
        /\ Less(Zero, recommendations.totalImpact)
        /\ IsNumber(coverageRatio(recommendations))
        /\ Less(Zero, coverageRatio(recommendations))

\* a combo on display that stays below its gap, so that the view computes
\* the ratio: 200 of 500
C26_Witness ==
    /\ Phase = "results"
    /\ recommendations.type = "combo"
    /\ Less(recommendations.totalImpact, recommendations.targetGap)
    /\ coverageRatio(recommendations) = Rat(2, 5)

\* the badge, headline and text of the results header: one three-way choice
\* on userGoal and recommendations.type
resultBanner(goal, recs) ==
    IF goal = null THEN "top_potential"
    ELSE IF recs.type = "single" THEN "single_path"
    ELSE "combo_strategy"

\* C27: with a goal set, the results header shows the combo-strategy banner
\* only for a result of type combo and the single-path banner only for a
\* result of type single; a result of type none is never presented as a
\* combo strategy.
C27_BannerMatchesType ==
    (Phase = "results" /\ userGoal # null) =>
        /\ resultBanner(userGoal, recommendations) = "combo_strategy"
                => recommendations.type = "combo"
        /\ resultBanner(userGoal, recommendations) = "single_path"
                => recommendations.type = "single"

\* C28: whenever the industry input is accepted as valid, industryStats is
\* non-empty and holds exactly the db rows, in db order, whose industry is
\* the accepted name (the input without leading and trailing blanks).
C28_ValidIndustryHasStats ==
    isValidIndustry(db, industrySearch) =>
        /\ industryStatsArray # << >>
        /\ industryStatsArray
                = SelectSeq(db, LAMBDA r : r.industry = Trim(industrySearch))

\* the promise of fetchDatabase is never rejected, a load that failed or
\* read fewer than 2 lines resolved to [], and once a handler of the load
\* effect has run isDbLoading is false
C29_NeverRejects ==
    /\ load.promise # "rejected"
    /\ load.outcome \in {"network_failure", "not_ok", "text_failure",
                         "short_text"}
            => (load.promise = "resolved" /\ load.value = << >>)
    /\ load.pc = "done" => ~ isDbLoading

\* C29: after mount isDbLoading eventually becomes false on every outcome
\* of the load; fetchDatabase never rejects (a network failure, a response
\* that is not OK or of fewer than 2 lines resolves to []), and the handler
\* of the load effect that runs clears isDbLoading.
C29_LoadingEnds == <>(isDbLoading = FALSE) /\ [] C29_NeverRejects

\* the request failed and the component left the loading state with an
\* empty database
C29_Witness ==
    /\ load.pc = "done"
    /\ load.outcome = "network_failure"
    /\ ~ isDbLoading
    /\ db = << >>

\* the rows of the selected industry in src/index.tsx, in db order
IndexIndustryActions ==
    SelectSeq(indexApp.db, LAMBDA r : r.industry = indexApp.selectedIndustry)

\* how far the path value of row r is from the target of the memo
IndexDistance(r) ==
    AbsNum(Sub(indexPathValue(r, indexApp.userGoal.path),
               indexApp.recommendations.targetX))

\* bestMatch is a row of the selected industry that is nearest to targetX,
\* and the earliest such row in db order
C30_BestMatchNearest ==
    indexApp.recommendations # null =>
        LET actions == IndexIndustryActions
        IN  \E i \in 1..Len(actions) :
                /\ actions[i] = indexApp.recommendations.bestMatch
                /\ \A j \in 1..Len(actions) :
                        Geq(IndexDistance(actions[j]), IndexDistance(actions[i]))
                /\ \A j \in 1..(i - 1) :
                        Less(IndexDistance(actions[i]), IndexDistance(actions[j]))

\* targetX is the gap of the confirmed goal
C30_TargetXIsGoalGap ==
    indexApp.recommendations # null =>
        IF indexApp.userGoal.targetType = "percentage"
        THEN Mul(indexApp.recommendations.targetX, Num(100))
                = Mul(indexApp.userGoal.currentValue,
                      indexApp.userGoal.targetValue)
        ELSE indexApp.recommendations.targetX = indexApp.userGoal.targetValue

\* C30: in src/index.tsx, whenever recommendations is non-null, bestMatch is
\* a db row of the selected industry whose path impact is nearest to
\* targetX, the earliest such row in db order, and targetX is the gap of the
\* confirmed userGoal (currentValue * targetValue / 100 for a percentage,
\* targetValue for an absolute target).
C30_BestMatch == C30_BestMatchNearest /\ C30_TargetXIsGoalGap

====
